---- MODULE Spec2Model ----
(***************************************************************************)
(* Model of src/app.py: the Streamlit sales dashboard script.  One run of  *)
(* the script is a pipeline over the uploaded table: date coercion and     *)
(* row dropping, product filter + period aggregation + KPI cards, the      *)
(* per-product growth-extrapolation forecast loop, and the inventory       *)
(* shortage alerts.  Each section of the script is one action.             *)
(*                                                                         *)
(* Numbers: the demand sums are integers (int64); growth rates and the     *)
(* forecast value are float64 in the code and float64 here: a sign, a      *)
(* significand of at most 53 bits and an exponent, with every sum,         *)
(* product and quotient rounded to the nearest float64 (ties to even) as   *)
(* IEEE 754 has it, and +inf, -inf and NaN as separate values.  So the     *)
(* monthly series [9, 3] with horizon 1 gives 3 * (1 + (3/9 - 1)) =        *)
(* 0.9999999999999998 and int() of it 0.  The formatted "Avg Monthly       *)
(* Growth" string of a forecast row is kept as the unformatted growth      *)
(* value.  A text cell of the demand column stands for text that          *)
(* is no number and makes no number of any string it is part of; a number  *)
(* cell of an object column is the string of its decimal digits.           *)
(***************************************************************************)
EXTENDS Integers, Sequences, FiniteSets, TLC

\* ------------------------------------------------------------------ bounds
MaxRows == 3
MaxPeriods == 3

\* The slider of the forecast horizon: st.slider(label, 1, 12, 3).
SliderMin == 1
SliderMax == 12

\* ------------------------------------------------------- small arithmetic
Abs(x) == IF x < 0 THEN -x ELSE x

Min(a, b) == IF a < b THEN a ELSE b

RECURSIVE GCD(_, _)
GCD(a, b) == IF b = 0 THEN a ELSE GCD(b, a % b)

RECURSIVE IPow(_, _)
IPow(b, e) == IF e = 0 THEN 1 ELSE b * IPow(b, e - 1)

\* ---------------------------------------------------- natural numbers
\* The significand of a float64 has 53 bits, more than an integer here
\* holds: a natural number of any size is the sequence of its digits in
\* base 2^15, lowest first, without leading zeros (zero is <<>>).
LimbBits == 15

Base == 32768

\* 2^n for n < LimbBits.
Pow2(n) ==
    <<1, 2, 4, 8, 16, 32, 64, 128, 256, 512, 1024, 2048, 4096, 8192,
      16384>>[n + 1]

RECURSIVE BTrim(_)
BTrim(a) ==
    IF a # <<>> /\ a[Len(a)] = 0 THEN BTrim(SubSeq(a, 1, Len(a) - 1)) ELSE a

RECURSIVE BOfInt(_)
BOfInt(n) == IF n = 0 THEN <<>> ELSE <<n % Base>> \o BOfInt(n \div Base)

RECURSIVE BToInt(_)
BToInt(a) == IF a = <<>> THEN 0 ELSE a[1] + Base * BToInt(Tail(a))

RECURSIVE IntBits(_)
IntBits(n) == IF n = 0 THEN 0 ELSE 1 + IntBits(n \div 2)

\* The number of bits of a.
BBits(a) ==
    IF a = <<>> THEN 0 ELSE LimbBits * (Len(a) - 1) + IntBits(a[Len(a)])

\* Bit i of a (bit 0 is the lowest).
BBit(a, i) ==
    LET k == i \div LimbBits + 1
    IN  IF k > Len(a) THEN 0 ELSE (a[k] \div Pow2(i % LimbBits)) % 2

\* Some bit of a below bit i is set.
BAnyBelow(a, i) ==
    \E k \in 1..Len(a) :
        IF k * LimbBits <= i THEN a[k] # 0
        ELSE IF (k - 1) * LimbBits < i
             THEN a[k] % Pow2(i - (k - 1) * LimbBits) # 0
             ELSE FALSE

RECURSIVE BAddC(_, _, _)
BAddC(a, b, c) ==
    IF a = <<>> /\ b = <<>> THEN (IF c = 0 THEN <<>> ELSE <<c>>)
    ELSE LET x == (IF a = <<>> THEN 0 ELSE a[1])
                  + (IF b = <<>> THEN 0 ELSE b[1]) + c
         IN  <<x % Base>> \o BAddC(IF a = <<>> THEN a ELSE Tail(a),
                                   IF b = <<>> THEN b ELSE Tail(b),
                                   x \div Base)

BAdd(a, b) == BAddC(a, b, 0)

\* a - b - c for a >= b + c, before the leading zeros are cut.
RECURSIVE BSubC(_, _, _)
BSubC(a, b, c) ==
    IF a = <<>> THEN <<>>
    ELSE LET x == a[1] - (IF b = <<>> THEN 0 ELSE b[1]) - c
         IN  <<x % Base>> \o BSubC(Tail(a),
                                   IF b = <<>> THEN b ELSE Tail(b),
                                   IF x < 0 THEN 1 ELSE 0)

BSub(a, b) == BTrim(BSubC(a, b, 0))

\* The sign of a - b.
RECURSIVE BCmp(_, _)
BCmp(a, b) ==
    IF Len(a) # Len(b) THEN (IF Len(a) > Len(b) THEN 1 ELSE -1)
    ELSE IF a = <<>> THEN 0
    ELSE IF a[Len(a)] # b[Len(b)]
         THEN (IF a[Len(a)] > b[Len(b)] THEN 1 ELSE -1)
    ELSE BCmp(SubSeq(a, 1, Len(a) - 1), SubSeq(b, 1, Len(b) - 1))

\* a * m + c for a digit m, before the leading zeros are cut.
RECURSIVE BMulC(_, _, _)
BMulC(a, m, c) ==
    IF a = <<>> THEN (IF c = 0 THEN <<>> ELSE <<c>>)
    ELSE LET x == a[1] * m + c
         IN  <<x % Base>> \o BMulC(Tail(a), m, x \div Base)

BMulSmall(a, m) == BTrim(BMulC(a, m, 0))

\* a * Base^n
BShiftLimbs(a, n) == IF a = <<>> THEN a ELSE [i \in 1..n |-> 0] \o a

RECURSIVE BMul(_, _)
BMul(a, b) ==
    IF b = <<>> THEN <<>>
    ELSE BAdd(BMulSmall(a, b[1]), BShiftLimbs(BMul(a, Tail(b)), 1))

RECURSIVE BPow(_, _)
BPow(a, h) == IF h = 0 THEN <<1>> ELSE BMul(BPow(a, h - 1), a)

\* a * 2^n
BShl(a, n) ==
    BShiftLimbs(BMulSmall(a, Pow2(n % LimbBits)), n \div LimbBits)

\* a \div 2^n
BShr(a, n) ==
    LET d == n \div LimbBits
        r == Pow2(n % LimbBits)
    IN  IF d >= Len(a) THEN <<>>
        ELSE BTrim([k \in 1..(Len(a) - d) |->
                       a[k + d] \div r
                       + (IF k + d < Len(a) THEN a[k + d + 1] % r ELSE 0)
                             * (Base \div r)])

\* The quotient and the remainder of a by d, for 0 < d <= 2^16.
RECURSIVE BDivRem(_, _, _)
BDivRem(a, d, r) ==
    IF a = <<>> THEN [q |-> <<>>, r |-> r]
    ELSE LET cur == r * Base + a[Len(a)]
             rest == BDivRem(SubSeq(a, 1, Len(a) - 1), d, cur % d)
         IN  [q |-> rest.q \o <<cur \div d>>, r |-> rest.r]

\* The number of zero bits at the low end of a # 0.
RECURSIVE BTrailingZeros(_)
BTrailingZeros(a) ==
    IF a[1] = 0 THEN LimbBits + BTrailingZeros(Tail(a))
    ELSE IF a[1] % 2 = 0 THEN 1 + BTrailingZeros(<<a[1] \div 2>>)
    ELSE 0

\* ------------------------------------------------------- float64 values
\* A finite float64 is s * m * 2^e with s the sign, m an odd natural number
\* of at most 53 bits (zero: m = <<>>, with s = 1: the sign of a zero shows
\* in no table) and e the exponent.  No value of the model comes near the
\* ends of the exponent range.
MantBits == 53

NaN == [k |-> "nan", s |-> 1, m |-> <<>>, e |-> 0]
PosInf == [k |-> "inf", s |-> 1, m |-> <<>>, e |-> 0]
NegInf == [k |-> "inf", s |-> -1, m |-> <<>>, e |-> 0]
FZero == [k |-> "fin", s |-> 1, m |-> <<>>, e |-> 0]

\* s * m * 2^e for m of at most 53 bits.
FNorm(s, m, e) ==
    IF m = <<>> THEN FZero
    ELSE LET z == BTrailingZeros(m)
         IN  [k |-> "fin", s |-> s, m |-> BShr(m, z), e |-> e + z]

\* The float64 nearest to s * (m + f) * 2^e, ties to the even significand,
\* where 0 <= f < 1 and sticky says f > 0 (then m has more than 54 bits).
FRound(s, m, e, sticky) ==
    LET sh == BBits(m) - MantBits
    IN  IF sh <= 0 THEN FNorm(s, m, e)
        ELSE LET q == BShr(m, sh)
                 half == BBit(m, sh - 1) = 1
                 low == sticky \/ BAnyBelow(m, sh - 1)
                 up == half /\ (low \/ BBit(q, 0) = 1)
             IN  FNorm(s, IF up THEN BAdd(q, <<1>>) ELSE q, e + sh)

\* float(n) of an integer.
Fin(n) == FNorm(IF n < 0 THEN -1 ELSE 1, BOfInt(Abs(n)), 0)

IsFin(x) == x.k = "fin"

Sign(x) == IF x.k = "fin" /\ x.m = <<>> THEN 0 ELSE x.s

InfOf(s) == IF s > 0 THEN PosInf ELSE NegInf

\* x + y
FAdd(x, y) ==
    IF x.k = "nan" \/ y.k = "nan" THEN NaN
    ELSE IF x.k = "inf" /\ y.k = "inf" THEN (IF x.s = y.s THEN x ELSE NaN)
    ELSE IF x.k = "inf" THEN x
    ELSE IF y.k = "inf" THEN y
    ELSE IF x.m = <<>> THEN y
    ELSE IF y.m = <<>> THEN x
    ELSE LET e == Min(x.e, y.e)
             a == BShl(x.m, x.e - e)
             b == BShl(y.m, y.e - e)
             c == BCmp(a, b)
         IN  IF x.s = y.s THEN FRound(x.s, BAdd(a, b), e, FALSE)
             ELSE IF c = 0 THEN FZero
             ELSE IF c > 0 THEN FRound(x.s, BSub(a, b), e, FALSE)
             ELSE FRound(y.s, BSub(b, a), e, FALSE)

\* x * y
FMul(x, y) ==
    IF x.k = "nan" \/ y.k = "nan" THEN NaN
    ELSE IF x.k = "inf" \/ y.k = "inf"
         THEN (IF Sign(x) * Sign(y) = 0 THEN NaN ELSE InfOf(Sign(x) * Sign(y)))
    ELSE FRound(x.s * y.s, BMul(x.m, y.m), x.e + y.e, FALSE)

\* The digits a quotient is taken to after the point, counted from its
\* first digit that is not zero: 75 bits, more than a significand and the
\* bit that rounds it.
FracLimbs == 5

\* The next n bits of the quotient r / b after the bits q, for 0 <= r < b,
\* and the remainder left.
RECURSIVE DivBits(_, _, _, _)
DivBits(r, b, n, q) ==
    IF n = 0 THEN [q |-> q, r |-> r]
    ELSE LET bit == IF 2 * r >= b THEN 1 ELSE 0
         IN  DivBits(2 * r - bit * b, b, n - 1, 2 * q + bit)

\* The digits of the quotient r / b after the point, lowest first: up to
\* the end of the quotient, or to n digits from the first that counts (the
\* first that is not zero, or the first of all when started), and the
\* remainder left.
RECURSIVE DivLimbs(_, _, _, _)
DivLimbs(r, b, n, started) ==
    IF r = 0 \/ n = 0 THEN [q |-> <<>>, r |-> r]
    ELSE LET d == DivBits(r, b, LimbBits, 0)
             counts == started \/ d.q # 0
             rest == DivLimbs(d.r, b, IF counts THEN n - 1 ELSE n, counts)
         IN  [q |-> rest.q \o <<d.q>>, r |-> rest.r]

\* a / b for the floats of two integers: x/0 is +-inf, 0/0 is NaN.
FDivInt(a, b) ==
    IF b = 0 THEN (IF a = 0 THEN NaN ELSE IF a > 0 THEN PosInf ELSE NegInf)
    ELSE LET f == DivLimbs(Abs(a) % Abs(b), Abs(b), FracLimbs,
                           Abs(a) >= Abs(b))
             s == IF (a < 0) = (b < 0) THEN 1 ELSE -1
         IN  FRound(s, BTrim(f.q \o BOfInt(Abs(a) \div Abs(b))),
                    -(Len(f.q) * LimbBits), f.r # 0)

\* x / c for a float x and a positive count c.
FDivCount(x, c) ==
    IF ~IsFin(x) THEN x
    ELSE LET d == BDivRem(BShiftLimbs(x.m, FracLimbs), c, 0)
         IN  FRound(x.s, BTrim(d.q), x.e - FracLimbs * LimbBits, d.r # 0)

\* x ** h for an integer h >= 1, as the set of the values pow() of the C
\* library can return: the power when it is a float64, else the float64
\* nearest to it, and either neighbour when the power lies within 1/16 of
\* the distance of the two from their midpoint (pow is not correctly
\* rounded: glibc states an error below 0.54 of that distance).
FPow(x, h) ==
    IF x.k = "nan" THEN {NaN}
    ELSE IF x.k = "inf" THEN {IF x.s < 0 /\ h % 2 = 1 THEN NegInf ELSE PosInf}
    ELSE LET m == BPow(x.m, h)
             s == IF x.s < 0 /\ h % 2 = 1 THEN -1 ELSE 1
             e == x.e * h
             sh == BBits(m) - MantBits
         IN  IF sh <= 0 THEN {FNorm(s, m, e)}
             ELSE LET q == BShr(m, sh)
                      t == IF sh >= 5 THEN BShr(m, sh - 5)[1] % 32
                           ELSE (m[1] % Pow2(sh)) * Pow2(5 - sh)
                  IN  IF t \in {15, 16}
                      THEN {FNorm(s, q, e + sh), FNorm(s, BAdd(q, <<1>>), e + sh)}
                      ELSE {FRound(s, m, e, FALSE)}

\* x > 0 (false for NaN).
FGtZero(x) == x.k # "nan" /\ Sign(x) > 0

\* int(x) for a finite x: truncation toward zero.
TruncInt(x) ==
    x.s * BToInt(IF x.e >= 0 THEN BShl(x.m, x.e) ELSE BShr(x.m, -x.e))

\* ------------------------------------------------------------ the table
\* A cell of the demand column as the CSV holds it: a number, or text that
\* is no number.
Num(v) == [t |-> "num", v |-> v]
TextCell == [t |-> "text", v |-> 0]

\* The products, in the order sorted() and groupby() put their names.
ProductOrder == <<"A", "B">>

ProductNames == {ProductOrder[i] : i \in 1..Len(ProductOrder)}

R(date, product, demand, inventory) ==
    [date |-> date, product |-> product, demand |-> demand,
     inventory |-> inventory]

\* A raw date cell is the text "y-m-d", held as its three numbers.  The
\* general tables draw their rows from GenRows: rows of two products in
\* three months of two years, two of them of one product on one date with
\* different inventories, and two rows whose date is no calendar date.
GenRows ==
    {R(<<2023, 1, 10>>, "A", Num(3), 1),
     R(<<2023, 1, 10>>, "A", Num(4), 4),
     R(<<2023, 2, 5>>, "A", Num(4), 4),
     R(<<2024, 1, 7>>, "A", Num(3), 1),
     R(<<2023, 1, 10>>, "B", Num(4), 4),
     R(<<2023, 2, 5>>, "B", Num(3), 1),
     R(<<2023, 2, 30>>, "A", Num(4), 1),
     R(<<2023, 4, 31>>, "B", Num(3), 4)}

GenTables == UNION {[1..n -> GenRows] : n \in 1..MaxRows}

\* One product with one row per month: every demand series of 2 to
\* MaxPeriods values of SeriesValues.
SeriesValues == {-2, 0, 1, 3}

SeriesTables ==
    {[i \in 1..Len(s) |-> R(<<2023, i, 10>>, "A", Num(s[i]), 1)] :
        s \in UNION {[1..n -> SeriesValues] : n \in 2..MaxPeriods}}

\* The series [100, 110, 121].
ScenarioCompound ==
    << R(<<2023, 1, 10>>, "A", Num(100), 40),
       R(<<2023, 2, 5>>, "A", Num(110), 40),
       R(<<2023, 3, 9>>, "A", Num(121), 40) >>

\* The series [50, 0, 60].
ScenarioZeroDenominator ==
    << R(<<2023, 1, 10>>, "A", Num(50), 40),
       R(<<2023, 2, 5>>, "A", Num(0), 40),
       R(<<2023, 3, 9>>, "A", Num(60), 40) >>

\* Predicted demand 55 against a latest inventory of 40 (A) and of 60 (B);
\* the rows are not in date order and two rows of A share a month.
ScenarioShortage ==
    << R(<<2023, 2, 5>>, "A", Num(55), 40),
       R(<<2023, 1, 10>>, "A", Num(30), 70),
       R(<<2023, 1, 20>>, "A", Num(25), 70),
       R(<<2023, 2, 5>>, "B", Num(55), 60),
       R(<<2023, 1, 10>>, "B", Num(55), 30) >>

\* Negative demand in two products.
ScenarioNegative ==
    << R(<<2023, 1, 10>>, "A", Num(1), 1),
       R(<<2023, 2, 5>>, "A", Num(-2), 1),
       R(<<2023, 1, 10>>, "B", Num(-2), 1),
       R(<<2023, 2, 5>>, "B", Num(3), 1) >>

\* A text cell in the demand column, in the one row of product B.
ScenarioText ==
    << R(<<2023, 1, 10>>, "A", Num(2), 1),
       R(<<2023, 2, 5>>, "A", Num(3), 1),
       R(<<2023, 1, 10>>, "B", TextCell, 1) >>

ScenarioTextUnordered ==
    << R(<<2023, 2, 5>>, "A", Num(3), 1),
       R(<<2023, 1, 10>>, "B", TextCell, 1),
       R(<<2023, 1, 10>>, "A", Num(2), 1) >>

\* The series [9, 3]: a growth of 3/9 - 1 that is no float64.
ScenarioRounding ==
    << R(<<2023, 1, 10>>, "A", Num(9), 1),
       R(<<2023, 2, 5>>, "A", Num(3), 1) >>

\* The series [49, 7], with no inventory left.
ScenarioRoundingNoStock ==
    << R(<<2023, 1, 10>>, "A", Num(49), 5),
       R(<<2023, 2, 5>>, "A", Num(7), 0) >>

\* Ten months, so nine changes to average: 12, 8, 12, 8, 10, 12, 12, 2, 8,
\* 10, with an inventory of 12 at the end.
LongSeries == <<12, 8, 12, 8, 10, 12, 12, 2, 8, 10>>

LongTable(s) == [i \in 1..Len(s) |-> R(<<2023, i, 10>>, "A", Num(s[i]), 12)]

ScenarioLong == LongTable(LongSeries)

\* The ten months with other demands in three of them, and their first
\* nine and eight months.
LongTables ==
    {LongTable(SubSeq([LongSeries EXCEPT ![2] = a, ![5] = b, ![9] = c],
                      1, n)) :
        a \in {2, 8, 12}, b \in {8, 10}, c \in {0, 8, 10}, n \in 8..10}

ScenarioTables ==
    {ScenarioCompound, ScenarioZeroDenominator, ScenarioShortage,
     ScenarioNegative, ScenarioText, ScenarioTextUnordered,
     ScenarioRounding, ScenarioRoundingNoStock, ScenarioLong}

Tables == GenTables \cup SeriesTables \cup LongTables \cup ScenarioTables

\* ----------------------------------------------------------- sequences
RECURSIVE SumInts(_)
SumInts(s) == IF s = <<>> THEN 0 ELSE Head(s) + SumInts(Tail(s))

\* The members of the set of integers S, ascending.
RECURSIVE SortedSeq(_)
SortedSeq(S) ==
    IF S = {} THEN <<>>
    ELSE LET m == CHOOSE x \in S : \A y \in S : x <= y
         IN  <<m>> \o SortedSeq(S \ {m})

Range(s) == {s[i] : i \in 1..Len(s)}

\* ------------------------------------------------------------ DATA PREP
IsLeap(y) == (y % 4 = 0 /\ y % 100 # 0) \/ y % 400 = 0

DaysIn(y, m) ==
    IF m = 2 THEN (IF IsLeap(y) THEN 29 ELSE 28)
    ELSE IF m \in {4, 6, 9, 11} THEN 30 ELSE 31

NaT == 0

\* pd.to_datetime(cell, errors='coerce'): the timestamp of a calendar date
\* (held as yyyymmdd), NaT for anything else.
to_datetime(c) ==
    IF c[1] >= 1 /\ c[2] \in 1..12 /\ c[3] >= 1 /\ c[3] <= DaysIn(c[1], c[2])
    THEN c[1] * 10000 + c[2] * 100 + c[3]
    ELSE NaT

\* .dt.year
YearOf(ts) == ts \div 10000

\* .dt.to_period("M").astype(str): "yyyy-mm", held as yyyymm (same order).
MonthOf(ts) == ts \div 100

\* pd.read_csv's type of the demand column: int64 when every cell is a
\* number, object (every cell a string) otherwise.
read_csv_dtype(table) ==
    IF \A i \in 1..Len(table) : table[i].demand.t = "num"
    THEN "int64" ELSE "object"

Coerced(table) ==
    [i \in 1..Len(table) |->
        [date |-> to_datetime(table[i].date), product |-> table[i].product,
         demand |-> table[i].demand, inventory |-> table[i].inventory]]

HasDate(r) == r.date # NaT

\* dropna that drops nothing.
dropnaKeepAll(rows) == rows

\* df.dropna(subset=[date_col])
dropna(rows) == SelectSeq(rows, HasDate)

AddFeatures(rows) ==
    [i \in 1..Len(rows) |->
        [date |-> rows[i].date, product |-> rows[i].product,
         demand |-> rows[i].demand, inventory |-> rows[i].inventory,
         Year |-> YearOf(rows[i].date), Month |-> MonthOf(rows[i].date)]]

\* -------------------------------------------------- FILTERS, AGGREGATION
\* sorted(df[product_col].astype(str).unique()); also the key order of
\* df.groupby(product_col).
UniqueProducts(rows) ==
    SelectSeq(ProductOrder,
              LAMBDA p : \E i \in 1..Len(rows) : rows[i].product = p)

\* df[df[product_col].astype(str) == selected_product], or df.copy().
FilterProduct(rows, sel) ==
    IF sel # "All" THEN SelectSeq(rows, LAMBDA r : r.product = sel) ELSE rows

\* Series.sum() of the demand column: the integer sum for int64, the
\* concatenation of the cells' strings for object.
SumDemand(rows, dt) ==
    IF dt = "int64" THEN SumInts([i \in 1..Len(rows) |-> rows[i].demand.v])
    ELSE [i \in 1..Len(rows) |-> rows[i].demand]

KeyOf(r, view) == IF view = "Monthly" THEN r.Month ELSE r.Year

\* rows.groupby(key)[demand_col].sum(): one entry per key, keys ascending.
GroupSum(rows, view, dt) ==
    LET keys == SortedSeq({KeyOf(rows[i], view) : i \in 1..Len(rows)})
    IN  [j \in 1..Len(keys) |->
            [key |-> keys[j],
             demand |-> SumDemand(
                 SelectSeq(rows, LAMBDA r : KeyOf(r, view) = keys[j]), dt)]]

\* ---------------------------------------------------------- KPI METRICS
\* int(avg_demand) if not pd.isna(avg_demand) else 0
AvgDemand(rows) ==
    IF Len(rows) = 0 THEN 0
    ELSE TruncInt(FDivCount(Fin(SumDemand(rows, "int64")), Len(rows)))

NUnique(rows) == Cardinality({rows[i].product : i \in 1..Len(rows)})

\* The number of decimal digits of v >= 0.
RECURSIVE Digits(_)
Digits(v) == IF v < 10 THEN 1 ELSE 1 + Digits(v \div 10)

\* int(s) succeeds on the concatenation s of the cells' strings: every cell
\* is a number, and only the first may carry a minus sign.
ConcatParses(cells) ==
    /\ cells # <<>>
    /\ \A i \in 1..Len(cells) :
          cells[i].t = "num" /\ (i > 1 => cells[i].v >= 0)

RECURSIVE ConcatMagnitude(_)
ConcatMagnitude(cells) ==
    IF cells = <<>> THEN 0
    ELSE LET last == Abs(cells[Len(cells)].v)
         IN  ConcatMagnitude(SubSeq(cells, 1, Len(cells) - 1))
                 * IPow(10, Digits(last)) + last

\* int(s) of the concatenation s of the cells' strings: "2" + "3" is 23.
IntOfConcat(cells) ==
    IF cells # <<>> /\ cells[1].v < 0 THEN -ConcatMagnitude(cells)
    ELSE ConcatMagnitude(cells)

\* The cards the KPI section shows before it ends.  On an int64 column all
\* three.  On an object column total_demand is the concatenation of the
\* cells' strings: the Total Demand card shows int() of it when that reads
\* as a number (ValueError otherwise), and .mean() then is a TypeError.
KpiCards(rows, dt) ==
    IF dt = "int64"
    THEN <<SumDemand(rows, dt), AvgDemand(rows), NUnique(rows)>>
    ELSE IF ConcatParses(SumDemand(rows, dt))
         THEN <<IntOfConcat(SumDemand(rows, dt))>>
         ELSE <<>>

\* -------------------------------------------------- PER-PRODUCT FORECAST
\* group.sort_values(date_col).groupby("Month")[demand_col].sum()
MonthlySeries(rows, p) ==
    LET sums == GroupSum(FilterProduct(rows, p), "Monthly", "int64")
    IN  [j \in 1..Len(sums) |-> sums[j].demand]

\* series.pct_change(): NaN first, then s[i] / s[i-1] - 1.
pct_change(s) ==
    [i \in 1..Len(s) |->
        IF i = 1 THEN NaN ELSE FAdd(FDivInt(s[i], s[i - 1]), Fin(-1))]

\* A replace that leaves the infinite changes in.
ReplaceInfKept(xs) == xs

\* .replace([np.inf, -np.inf], np.nan)
ReplaceInf(xs) ==
    [i \in 1..Len(xs) |-> IF xs[i].k = "inf" THEN NaN ELSE xs[i]]

\* .dropna()
DropNaN(xs) == SelectSeq(xs, LAMBDA x : x.k # "nan")

\* x + xs[1] + ... + xs[Len(xs)], added from the left.
RECURSIVE FAddAll(_, _)
FAddAll(x, xs) ==
    IF xs = <<>> THEN x ELSE FAddAll(FAdd(x, Head(xs)), Tail(xs))

\* numpy's pairwise sum of a float64 array: under 8 values they are added
\* from the left; up to 128 values eight sums run side by side over the
\* values in steps of 8, are added in pairs, and the values left over are
\* added on; above 128 the array is halved at a multiple of 8.
RECURSIVE PairwiseSum(_)
PairwiseSum(xs) ==
    LET n == Len(xs)
        full == n - (n % 8)
        half == (n \div 2) - ((n \div 2) % 8)
    IN  IF n < 8 THEN FAddAll(FZero, xs)
        ELSE IF n <= 128
        THEN LET r == [j \in 1..8 |->
                          FAddAll(xs[j], [k \in 1..(full \div 8 - 1) |->
                                             xs[j + 8 * k]])]
                 res == FAdd(FAdd(FAdd(r[1], r[2]), FAdd(r[3], r[4])),
                             FAdd(FAdd(r[5], r[6]), FAdd(r[7], r[8])))
             IN  FAddAll(res, SubSeq(xs, full + 1, n))
        ELSE FAdd(PairwiseSum(SubSeq(xs, 1, half)),
                  PairwiseSum(SubSeq(xs, half + 1, n)))

\* The sum inside growth_rates.mean(): values.sum() of the float64 array.
FSum(xs) == FAdd(FZero, PairwiseSum(xs))

\* growth_rates.mean() if not growth_rates.empty else 0
AvgGrowth(s) ==
    LET growth_rates == DropNaN(ReplaceInf(pct_change(s)))
    IN  IF growth_rates = <<>> THEN FZero
        ELSE FDivCount(FSum(growth_rates), Len(growth_rates))

\* last_value * (1 + avg_growth) ** forecast_horizon: the values the line
\* can give, one for each value of the power.
ForecastValue(last, g, h) ==
    {FMul(Fin(last), p) : p \in FPow(FAdd(Fin(1), g), h)}

\* No floor at zero.
MaxZeroNoFloor(x) == x

\* max(0, forecast_value): the second argument only when it is greater.
MaxZero(x) == IF FGtZero(x) THEN x ELSE FZero

\* A guard that lets a one-period series through.
TooShortOffByOne(s) == Len(s) < 1

\* len(series) < 2: the product is skipped.
TooShort(s) == Len(s) < 2

\* One iteration of the loop for a product with series s, as the set of its
\* outcomes: skipped, raising (int() of an infinite value is an
\* OverflowError) or a row.
Iteration(p, s, h) ==
    IF TooShort(s) THEN {[kind |-> "skip", row |-> <<>>]}
    ELSE LET g == AvgGrowth(s)
             last == s[Len(s)]
         IN  {LET m == MaxZero(fv)
              IN  IF ~IsFin(m) THEN [kind |-> "raise", row |-> <<>>]
                  ELSE [kind |-> "row",
                        row |-> [Product |-> p, Last |-> last, Growth |-> g,
                                 Predicted |-> TruncInt(m)]] :
              fv \in ForecastValue(last, g, h)}

\* The loop over df.groupby(product_col), as the set of its outcomes: the
\* rows appended, and whether an iteration raised (the loop ends there).
RECURSIVE ForecastLoop(_, _, _)
ForecastLoop(rows, products, h) ==
    IF products = <<>> THEN {[rows |-> <<>>, raised |-> FALSE]}
    ELSE LET its == Iteration(Head(products),
                              MonthlySeries(rows, Head(products)), h)
             rests == ForecastLoop(rows, Tail(products), h)
         IN  {IF it.kind = "raise" THEN [rows |-> <<>>, raised |-> TRUE]
              ELSE [rows |-> (IF it.kind = "row" THEN <<it.row>> ELSE <<>>)
                             \o rest.rows,
                    raised |-> rest.raised] :
              it \in its, rest \in rests}

\* ------------------------------------------------------ SHORTAGE ALERTS
\* The rows df.sort_values(date_col).groupby(product_col).tail(1) can keep
\* for product p: a row of p with the latest date.  The sort is not stable,
\* so among rows of p that share the latest date any one can come last.
LatestRows(rows, p) ==
    {i \in 1..Len(rows) :
        /\ rows[i].product = p
        /\ \A j \in 1..Len(rows) :
              rows[j].product = p => rows[j].date <= rows[i].date}

\* A comparison that also flags an inventory equal to the demand.
IsShortageOrEqual(inventory, predicted) == inventory <= predicted

\* alert_df[inventory_col] < alert_df["Predicted Demand"]
IsShortage(inventory, predicted) == inventory < predicted

\* forecast_df.merge(latest_inventory, how="left") with the Shortage column,
\* for the choice pick of each product's latest row.
AlertDf(fc, rows, pick) ==
    [j \in 1..Len(fc) |->
        LET inv == rows[pick[fc[j].Product]].inventory
        IN  [Product |-> fc[j].Product, Predicted |-> fc[j].Predicted,
             Inventory |-> inv,
             Shortage |-> IsShortage(inv, fc[j].Predicted)]]

\* ------------------------------------------------------------ the script
VARIABLES
    pc,               \* the section of the script that runs next
    raw,              \* the uploaded table
    dtype,            \* the type read_csv gave the demand column
    df,               \* the table after DATA PREP
    invalid_count,    \* the number of rows with an invalid date
    warning,          \* the counts the sidebar warning showed
    selected_product, \* the product filter
    time_view,        \* "Monthly" or "Yearly"
    filtered_df,
    trend_df,
    kpi,              \* the KPI cards shown: total, average, products
    forecast_horizon,
    forecast_df,
    inventory_col,    \* "None" or the inventory column
    alert_df,
    message           \* what the alerts section showed

vars ==
    <<pc, raw, dtype, df, invalid_count, warning, selected_product, time_view,
      filtered_df, trend_df, kpi, forecast_horizon, forecast_df,
      inventory_col, alert_df, message>>

Init ==
    /\ raw \in Tables
    /\ pc = "prep"
    /\ dtype = "none"
    /\ df = <<>>
    /\ invalid_count = 0
    /\ warning = <<>>
    /\ selected_product = "All"
    /\ time_view = "Monthly"
    /\ filtered_df = <<>>
    /\ trend_df = <<>>
    /\ kpi = <<>>
    /\ forecast_horizon = 0
    /\ forecast_df = <<>>
    /\ inventory_col = "None"
    /\ alert_df = <<>>
    /\ message = "none"

\* Load data, DATA PREP (lines 45-76).
DataPrep ==
    /\ pc = "prep"
    /\ LET coerced == Coerced(raw)
           bad == Cardinality({i \in 1..Len(coerced) : coerced[i].date = NaT})
           kept == IF bad > 0 THEN dropna(coerced) ELSE coerced
       IN  /\ dtype' = read_csv_dtype(raw)
           /\ invalid_count' = bad
           /\ warning' = IF bad > 0 THEN <<bad>> ELSE <<>>
           /\ df' = IF kept = <<>> THEN <<>> ELSE AddFeatures(kept)
           /\ pc' = IF kept = <<>> THEN "stopped" ELSE "filters"
    /\ UNCHANGED <<raw, selected_product, time_view, filtered_df, trend_df,
                   kpi, forecast_horizon, forecast_df, inventory_col,
                   alert_df, message>>

\* FILTERS and AGGREGATION (lines 78-99).
FiltersAggregation ==
    /\ pc = "filters"
    /\ \E sel \in {"All"} \cup Range(UniqueProducts(df)),
          view \in {"Monthly", "Yearly"} :
        /\ selected_product' = sel
        /\ time_view' = view
        /\ filtered_df' = FilterProduct(df, sel)
        /\ trend_df' = GroupSum(FilterProduct(df, sel), view, dtype)
    /\ pc' = "kpi"
    /\ UNCHANGED <<raw, dtype, df, invalid_count, warning, kpi,
                   forecast_horizon, forecast_df, inventory_col, alert_df,
                   message>>

\* KPI METRICS and TREND CHART (lines 101-137).  On an object column the
\* script ends with an exception: at line 107 with no card shown, or at
\* line 112 with the Total Demand card shown.
KpiMetrics ==
    /\ pc = "kpi"
    /\ kpi' = KpiCards(filtered_df, dtype)
    /\ pc' = IF dtype = "int64" THEN "forecast" ELSE "raised"
    /\ UNCHANGED <<raw, dtype, df, invalid_count, warning, selected_product,
                   time_view, filtered_df, trend_df, forecast_horizon,
                   forecast_df, inventory_col, alert_df, message>>

\* PER-PRODUCT FORECAST (lines 139-172).
Forecast ==
    /\ pc = "forecast"
    /\ \E h \in SliderMin..SliderMax :
        \E run \in ForecastLoop(df, UniqueProducts(df), h) :
            /\ forecast_horizon' = h
            /\ forecast_df' = run.rows
            /\ pc' = IF run.raised THEN "raised" ELSE "alerts"
    /\ UNCHANGED <<raw, dtype, df, invalid_count, warning, selected_product,
                   time_view, filtered_df, trend_df, kpi, inventory_col,
                   alert_df, message>>

\* INVENTORY SHORTAGE ALERTS (lines 174-204; the column is picked at 54).
Alerts ==
    /\ pc = "alerts"
    /\ \E col \in {"None", "inventory"} :
        /\ inventory_col' = col
        /\ IF col # "None" /\ forecast_df # <<>>
           THEN \E pick \in [Range(UniqueProducts(df)) -> 1..Len(df)] :
                   /\ \A p \in DOMAIN pick : pick[p] \in LatestRows(df, p)
                   /\ alert_df' = AlertDf(forecast_df, df, pick)
                   /\ message' =
                        IF \E j \in 1..Len(forecast_df) :
                               AlertDf(forecast_df, df, pick)[j].Shortage
                        THEN "shortage" ELSE "success"
           ELSE /\ alert_df' = <<>>
                /\ message' = "info"
    /\ pc' = "done"
    /\ UNCHANGED <<raw, dtype, df, invalid_count, warning, selected_product,
                   time_view, filtered_df, trend_df, kpi, forecast_horizon,
                   forecast_df>>

Next == DataPrep \/ FiltersAggregation \/ KpiMetrics \/ Forecast \/ Alerts

Spec == Init /\ [][Next]_vars

\* ------------------------------------------------------------ properties
\* What the properties say about the tables, stated from the rows.
RowsOfProduct(p) == {i \in 1..Len(df) : df[i].product = p}

MonthsOfProduct(p) == {df[i].Month : i \in RowsOfProduct(p)}

ProductsOf(rows) == {rows[j].Product : j \in 1..Len(rows)}

RECURSIVE DemandOver(_)
DemandOver(I) ==
    IF I = {} THEN 0
    ELSE LET i == CHOOSE x \in I : TRUE
         IN  df[i].demand.v + DemandOver(I \ {i})

\* The demand of product p in its latest month.
LastMonthDemand(p) ==
    DemandOver({i \in RowsOfProduct(p) :
                   \A m \in MonthsOfProduct(p) : m <= df[i].Month})

\* The forecast section has run to its end.
ForecastDone == pc \in {"alerts", "done"}

\* C1: every Predicted Demand of a forecast row is >= 0, for every horizon,
\* also when the mean growth is below -1 or the last value is negative.
C1_PredictedNonNegative ==
    \A j \in 1..Len(forecast_df) : forecast_df[j].Predicted >= 0

\* A row with growth below -1 and a negative last value, floored to 0.
C1_Witness ==
    /\ ForecastDone
    /\ \E j \in 1..Len(forecast_df) :
          /\ Sign(FAdd(forecast_df[j].Growth, Fin(1))) < 0
          /\ forecast_df[j].Last < 0
          /\ forecast_df[j].Predicted = 0

\* C2: a product with fewer than 2 monthly periods has no forecast row and
\* no alert row, and the forecast loop never ends the script with an error.
C2_ShortSeriesSkipped ==
    /\ ForecastDone =>
          \A p \in ProductNames :
              Cardinality(MonthsOfProduct(p)) < 2 =>
                  /\ p \notin ProductsOf(forecast_df)
                  /\ p \notin ProductsOf(alert_df)
    /\ pc = "raised" => forecast_horizon = 0

\* A one-period product beside a forecast product, with the alerts shown.
C2_Witness ==
    /\ pc = "done"
    /\ inventory_col # "None"
    /\ alert_df # <<>>
    /\ \E p \in ProductNames : Cardinality(MonthsOfProduct(p)) = 1

\* The series of product p, month by month, stated from the rows.
SeriesOfProduct(p) ==
    LET months == SortedSeq(MonthsOfProduct(p))
    IN  [j \in 1..Len(months) |->
            DemandOver({i \in RowsOfProduct(p) : df[i].Month = months[j]})]

\* The fraction n/d in lowest terms, with d > 0.
Frac(n, d) ==
    LET c == GCD(Abs(n), Abs(d))
    IN  [n |-> (IF d < 0 THEN -n ELSE n) \div c, d |-> Abs(d) \div c]

\* The sum of the changes (s[i+1] - s[i]) / s[i] with s[i] # 0, i <= k.
RECURSIVE ChangeSum(_, _)
ChangeSum(s, k) ==
    IF k = 0 THEN [n |-> 0, d |-> 1]
    ELSE LET t == ChangeSum(s, k - 1)
         IN  IF s[k] = 0 THEN t
             ELSE Frac(t.n * s[k] + (s[k + 1] - s[k]) * t.d, t.d * s[k])

\* The mean of the changes (s[i+1] - s[i]) / s[i] with s[i] # 0, and 0 when
\* there is none, as a fraction.
MeanOfFiniteChanges(s) ==
    LET F == {i \in 1..(Len(s) - 1) : s[i] # 0}
        t == ChangeSum(s, Len(s) - 1)
    IN  IF F = {} THEN [n |-> 0, d |-> 1]
        ELSE Frac(t.n, t.d * Cardinality(F))

\* C3: the predicted value of a row is last * (1 + g)^H floored at 0 and
\* truncated, with last the demand of the product's latest month and g the
\* mean growth; the series [100, 110, 121] with H = 2 gives g = 0.10 and 146.
C3_CompoundForecast ==
    pc = "alerts" =>
       /\ \A j \in 1..Len(forecast_df) :
             LET r == forecast_df[j]
                 g == MeanOfFiniteChanges(SeriesOfProduct(r.Product))
                 b == g.n + g.d
                 positive == \/ r.Last > 0 /\ b > 0
                             \/ r.Last > 0 /\ b < 0 /\ forecast_horizon % 2 = 0
                             \/ r.Last < 0 /\ b < 0 /\ forecast_horizon % 2 = 1
                 num == BMul(BOfInt(Abs(r.Last)),
                             BPow(BOfInt(Abs(b)), forecast_horizon))
                 den == BPow(BOfInt(g.d), forecast_horizon)
             IN  /\ r.Last = LastMonthDemand(r.Product)
                 /\ IF positive
                    THEN /\ r.Predicted >= 0
                         /\ BCmp(BMul(BOfInt(r.Predicted), den), num) <= 0
                         /\ BCmp(num, BMul(BOfInt(r.Predicted + 1), den)) < 0
                    ELSE r.Predicted = 0
       /\ (raw = ScenarioCompound /\ forecast_horizon = 2) =>
             /\ Len(forecast_df) = 1
             /\ forecast_df[1].Last = 121
             /\ MeanOfFiniteChanges(SeriesOfProduct("A")) = [n |-> 1, d |-> 10]
             /\ forecast_df[1].Predicted = 146

\* The float64 g is the fraction f to six decimal places.
IsNear(g, f) ==
    /\ IsFin(g)
    /\ LET a == TruncInt(FMul(g, Fin(1000000)))
           x == BMul(BOfInt(Abs(a)), BOfInt(f.d))
           y == BMul(BOfInt(1000000), BOfInt(Abs(f.n)))
           diff == IF (a >= 0 /\ f.n >= 0) \/ (a <= 0 /\ f.n <= 0)
                   THEN (IF BCmp(x, y) >= 0 THEN BSub(x, y) ELSE BSub(y, x))
                   ELSE BAdd(x, y)
       IN  BCmp(diff, BOfInt(2 * f.d)) <= 0

\* C4: g is the mean of exactly the finite changes (those with a nonzero
\* denominator), 0 when none remains, so every product with 2 or more
\* periods leaves the forecast loop with a finite growth and a forecast; an
\* all-zero series gives g = 0 and forecast 0, and [50, 0, 60] gives g = -1
\* and forecast 0.
C4_MeanOfFiniteChanges ==
    (forecast_horizon >= 1 /\ pc \in {"alerts", "raised"}) =>
       /\ \A p \in ProductNames :
             Cardinality(MonthsOfProduct(p)) >= 2 =>
                LET s == SeriesOfProduct(p)
                IN  \E j \in 1..Len(forecast_df) :
                        /\ forecast_df[j].Product = p
                        /\ IsNear(forecast_df[j].Growth, MeanOfFiniteChanges(s))
                        /\ (\A i \in 1..(Len(s) - 1) : s[i] = 0)
                            => forecast_df[j].Growth = FZero
                        /\ (\A i \in 1..Len(s) : s[i] = 0)
                            => forecast_df[j].Predicted = 0
       /\ raw = ScenarioZeroDenominator =>
             /\ Len(forecast_df) = 1
             /\ forecast_df[1].Growth = Fin(-1)
             /\ forecast_df[1].Predicted = 0

\* A forecast made over a zero denominator: [50, 0, 60].
C4_Witness ==
    /\ pc = "alerts"
    /\ raw = ScenarioZeroDenominator
    /\ forecast_df[1].Growth = Fin(-1)
    /\ forecast_df[1].Predicted = 0

\* The rows of product p with the most recent date.
MostRecentRows(p) ==
    {i \in RowsOfProduct(p) :
        \A j \in RowsOfProduct(p) : df[j].date <= df[i].date}

\* C5: with the inventory column selected, the alert row of every forecast
\* product holds the inventory of a row of the product with the most recent
\* date, and its flag is true exactly when that inventory is below the
\* predicted demand: 40 against 55 is flagged, 60 against 55 is not.
C5_ShortageFlag ==
    (pc = "done" /\ inventory_col # "None") =>
       /\ Len(alert_df) = Len(forecast_df)
       /\ \A j \in 1..Len(forecast_df) :
             /\ alert_df[j].Product = forecast_df[j].Product
             /\ alert_df[j].Predicted = forecast_df[j].Predicted
             /\ \E i \in MostRecentRows(forecast_df[j].Product) :
                    alert_df[j].Inventory = df[i].inventory
             /\ alert_df[j].Shortage
                  <=> (alert_df[j].Inventory < alert_df[j].Predicted)
       /\ (message = "shortage")
             <=> (\E j \in 1..Len(alert_df) : alert_df[j].Shortage)
       /\ raw = ScenarioShortage =>
             /\ alert_df[1].Inventory = 40 /\ alert_df[1].Predicted = 55
             /\ alert_df[1].Shortage
             /\ alert_df[2].Inventory = 60 /\ alert_df[2].Predicted = 55
             /\ ~alert_df[2].Shortage

C5_Witness ==
    /\ pc = "done"
    /\ raw = ScenarioShortage
    /\ Len(alert_df) = 2
    /\ alert_df[1].Shortage
    /\ ~alert_df[2].Shortage

\* The raw date cell c is a calendar date.
IsCalendarDate(c) ==
    /\ c[2] >= 1 /\ c[2] <= 12
    /\ c[3] >= 1 /\ c[3] <= DaysIn(c[1], c[2])

InvalidRows == {i \in 1..Len(raw) : ~IsCalendarDate(raw[i].date)}

\* C6: of N rows with k unparseable dates, the cleaned table that DATA PREP
\* leaves keeps the
\* N - k rows with a date, in order, every one with a valid date, and the
\* count k is the one reported.
C6_InvalidDatesDropped ==
    pc \in {"filters", "stopped"} =>
       /\ invalid_count = Cardinality(InvalidRows)
       /\ warning = (IF InvalidRows = {} THEN <<>>
                     ELSE <<Cardinality(InvalidRows)>>)
       /\ Len(df) = Len(raw) - Cardinality(InvalidRows)
       /\ \A i \in 1..Len(df) :
             /\ df[i].date # NaT
             /\ \E j \in 1..Len(raw) :
                   /\ j \notin InvalidRows
                   /\ Cardinality({x \in 1..j : x \notin InvalidRows}) = i
                   /\ df[i].date = raw[j].date[1] * 10000
                                   + raw[j].date[2] * 100 + raw[j].date[3]
                   /\ df[i].product = raw[j].product
                   /\ df[i].demand = raw[j].demand
                   /\ df[i].inventory = raw[j].inventory

\* Two of three rows dropped.
C6_Witness ==
    /\ pc = "filters"
    /\ Len(raw) = 3
    /\ invalid_count = 2
    /\ warning = <<2>>
    /\ Len(df) = 1

\* C7: after input normalization every row of the cleaned table has a
\* demand that is a number >= 0 (non-numeric cells coerced to zero).
C7_DemandNonNegativeNumber ==
    pc # "prep" =>
       \A i \in 1..Len(df) :
           /\ dtype = "int64"
           /\ df[i].demand.t = "num"
           /\ df[i].demand.v >= 0

RECURSIVE Flatten(_)
Flatten(ss) == IF ss = <<>> THEN <<>> ELSE Head(ss) \o Flatten(Tail(ss))

\* The sum over the periods of the aggregated demand: a sum of integers,
\* or the concatenation of the strings of an object column.
TrendTotal ==
    IF dtype = "int64"
    THEN SumInts([j \in 1..Len(trend_df) |-> trend_df[j].demand])
    ELSE Flatten([j \in 1..Len(trend_df) |-> trend_df[j].demand])

\* C9: for both granularities the aggregated demand summed over all periods
\* equals the sum of the cleaned demand column, which is the Total Demand
\* KPI, and every product's monthly series sums to its rows' demand.
C9_AggregationPreservesTotal ==
    pc \in {"kpi", "forecast", "alerts", "done", "raised"} =>
       /\ TrendTotal = SumDemand(filtered_df, dtype)
       /\ pc # "kpi" =>
             /\ kpi # <<>>
             /\ kpi[1] = (IF dtype = "int64" THEN TrendTotal
                          ELSE IntOfConcat(TrendTotal))
       /\ dtype = "int64" =>
             \A p \in ProductNames :
                 SumInts(MonthlySeries(df, p)) = DemandOver(RowsOfProduct(p))

\* C10: an error condition in one product's rows never ends the batch:
\* when the script has ended or run past the forecast, every product with
\* 2 or more periods has its forecast row.
C10_BatchIsolation ==
    pc \in {"alerts", "done", "raised"} =>
       \A p \in ProductNames :
           Cardinality(MonthsOfProduct(p)) >= 2 => p \in ProductsOf(forecast_df)

====
